---- MODULE Spec2Model ----
(***************************************************************************)
(* Bus tracking: the location-ingestion route, the Socket.IO rooms and the *)
(* client-side proximity notifier, as state machines.                      *)
(*                                                                         *)
(* Units.  All coordinates of the model lie on one meridian (longitude     *)
(* Lng0); latitudes are whole millidegrees.  Distances are whole metres,   *)
(* times are whole minutes, speeds are metres per hour.                    *)
(***************************************************************************)
EXTENDS Integers, Sequences, FiniteSets, TLC

(* ------------------------------ bounds --------------------------------- *)
MaxRequests == 3      \* location requests issued one after another
MaxClock == 1         \* last tick of the wall clock
MaxEvents == 2        \* events published through the socket handler
MaxNotifications == 2 \* POST /api/notifications requests

(* ------------------------- program constants --------------------------- *)
R == 6371                      \* Earth's radius in km
PiNum == 355                   \* Math.PI as the fraction PiNum / PiDen
PiDen == 113
MinutesPerHour == 60           \* (1000 * 60 * 60) ms per hour, in clock minutes
Undefined == -1                \* a field or an argument that is absent

(* ---------------------------- input domains ---------------------------- *)
BusIds == {1, 2}
Handlers == 1..MaxRequests
Overlapping == {1, 2}          \* the request slots that may run concurrently
HttpBusIds == {1}              \* the bus the HTTP specifications send requests for
Lats == {0, 1}
Speeds == {Undefined, 0, 40000}
Sockets == {1, 2, 3}
\* the one socket services/socket.js opens for the pages of a browser
PageSocket == CHOOSE s \in Sockets : \A t \in Sockets : s <= t

Coord(lat) == [latitude |-> lat, longitude |-> 0]
Lng0 == Coord(0).longitude     \* the meridian of every coordinate
Coords == {Coord(lat) : lat \in Lats}
NoLocation == [latitude |-> Undefined, longitude |-> Undefined]

Abs(x) == IF x < 0 THEN -x ELSE x

(* The haversine distance of buses.js, in metres.  Every coordinate of the *)
(* model has longitude Lng0, so dLng = 0, a = sin^2(dLat/2) and            *)
(* c = 2*atan2(sqrt(a), sqrt(1-a)) is |dLat| in radians: the distance is   *)
(* R * |latitude - lastLat| * PI / 180 (km per degree = m per millidegree).*)
Haversine(lastLat, lastLng, latitude, longitude) ==
  (R * PiNum * Abs(latitude - lastLat)) \div (PiDen * 180)

(* A bus document as the schema defaults leave it after creation. *)
NewBus(loc, createdAt) ==
  [currentLocation |-> loc,
   lastUpdated |-> createdAt,
   speed |-> 0,
   tripStats |-> [distanceToday |-> 0,
                  totalDistance |-> 0,
                  tripStartTime |-> Undefined,
                  lastLocation |-> NoLocation]]

Null == [isNull |-> TRUE]

(* server.js never calls app.set: the application settings table is empty. *)
AppSettings == {}
AppGet(name) == IF name \in AppSettings THEN name ELSE "undefined"

VARIABLES
  clock,         \* wall clock read by new Date(), in minutes
  db,            \* the buses collection: bus id -> document or Null
  req,           \* one slot per PATCH /:id/location request
  samples,       \* per bus, the coordinates committed by location updates, in order
  connected,     \* Socket.IO sockets currently connected
  rooms,         \* room bus-<id> -> its member sockets
  inbox,         \* per socket, the indices in `published` of the events delivered to it
  published,     \* every 'bus-location-update' event handed to io.to(room).emit
  pageOpen,      \* the BusTracking page is mounted with a user
  display,       \* the page's `buses` state: bus id -> location shown (NoLocation: not listed)
  trackedBuses,  \* notifier input: ids of the buses the user tracks
  stops,         \* notifier input: the stops, in array order
  lastSeen,      \* per bus, the location in the latest update the notifier was given
  prevLocation,  \* where lastUpdate's bus was in the update before it (NoLocation: none)
  lastUpdate,    \* the last update handed to checkAndNotifyBusUpdates
  raised,        \* ids of the stops showBusArrivalNotification was called for by it
  notifications, \* the POST /api/notifications requests answered so far, in order
  delivered,     \* per socket, the indices of the 'new-notification' events sent to it
  etaResult,     \* the last ETA call: its function, its arguments and what it returned
  listenerTracked, \* the trackedBuses the page's socket listener closed over
  listenerStops, \* the stops the page's socket listener closed over
  stopResult,    \* the last stop lookup: its function, its arguments and what it returned
  driver,        \* the DriverPanel: its state, the browser's watch and interval
  apiRequest,    \* one request sent through the axios instance of services/api
  route,         \* a route document: its waypoints
  routeResponse  \* the last waypoint request: its parameter and its answer

httpVars == <<clock, db, req, samples>>
sockVars == <<connected, rooms, inbox, published>>
pageVars == <<pageOpen, display>>
notifyVars == <<trackedBuses, stops, lastSeen, prevLocation, lastUpdate, raised>>
notificationVars == <<notifications, delivered>>
etaVars == <<etaResult>>
listenerVars == <<listenerTracked, listenerStops>>
frontendVars == <<stopResult, driver, apiRequest>>
routeVars == <<route, routeResponse>>
vars == <<clock, db, req, samples, connected, rooms, inbox, published,
          pageOpen, display, trackedBuses, stops, lastSeen, prevLocation, lastUpdate,
          raised, notifications, delivered, etaResult, listenerTracked, listenerStops,
          stopResult, driver, apiRequest, route, routeResponse>>

IdleReq ==
  [pc |-> "idle", busId |-> 0, latitude |-> 0, longitude |-> 0, speed |-> Undefined,
   now |-> 0, currentBus |-> Null, seen |-> 0, status |-> 0, committed |-> FALSE,
   emitted |-> 0]

Done(r, code) == [r EXCEPT !.pc = "done", !.status = code]

(* --------------------- PATCH /api/buses/:id/location -------------------- *)

(* Mutant: with no lastLocation yet, measure from the bus's current location. *)
DistanceIncrementFromCurrent(currentBus, latitude, longitude) ==
  IF currentBus.tripStats.lastLocation # NoLocation
  THEN Haversine(currentBus.tripStats.lastLocation.latitude,
                 currentBus.tripStats.lastLocation.longitude,
                 latitude, longitude)
  ELSE Haversine(currentBus.currentLocation.latitude,
                 currentBus.currentLocation.longitude,
                 latitude, longitude)

(* buses.js 151-166; a lastLocation never written reads as absent. *)
DistanceIncrement(currentBus, latitude, longitude) ==
  IF currentBus.tripStats.lastLocation # NoLocation
  THEN Haversine(currentBus.tripStats.lastLocation.latitude,
                 currentBus.tripStats.lastLocation.longitude,
                 latitude, longitude)
  ELSE 0

(* `speed || 0` and `!speed`: speed is falsy when it is absent or 0. *)
Truthy(speed) == speed # Undefined /\ speed # 0

(* buses.js 168-175; a stored Date is always truthy. *)
CalculatedSpeed(currentBus, speed, distanceIncrement, now) ==
  LET timeDiff == now - currentBus.lastUpdated
  IN IF ~Truthy(speed) /\ distanceIncrement > 0 /\ timeDiff > 0
     THEN (distanceIncrement * MinutesPerHour) \div timeDiff
     ELSE IF Truthy(speed) THEN speed ELSE 0

(* Mutant: the update never stamps a trip start time. *)
UpdateDataKeepsTripStart(currentBus, latitude, longitude, speed, now) ==
  LET distanceIncrement == DistanceIncrement(currentBus, latitude, longitude)
  IN [currentLocation |-> [latitude |-> latitude, longitude |-> longitude],
      lastUpdated |-> now,
      speed |-> CalculatedSpeed(currentBus, speed, distanceIncrement, now),
      tripStats |->
        [distanceToday |-> currentBus.tripStats.distanceToday + distanceIncrement,
         totalDistance |-> currentBus.tripStats.totalDistance + distanceIncrement,
         tripStartTime |-> currentBus.tripStats.tripStartTime,
         lastLocation |-> [latitude |-> latitude, longitude |-> longitude]]]

(* buses.js 177-193 *)
UpdateData(currentBus, latitude, longitude, speed, now) ==
  LET distanceIncrement == DistanceIncrement(currentBus, latitude, longitude)
  IN [currentLocation |-> [latitude |-> latitude, longitude |-> longitude],
      lastUpdated |-> now,
      speed |-> CalculatedSpeed(currentBus, speed, distanceIncrement, now),
      tripStats |->
        [distanceToday |-> currentBus.tripStats.distanceToday + distanceIncrement,
         totalDistance |-> currentBus.tripStats.totalDistance + distanceIncrement,
         tripStartTime |-> IF currentBus.tripStats.tripStartTime = Undefined
                           THEN now
                           ELSE currentBus.tripStats.tripStartTime,
         lastLocation |-> [latitude |-> latitude, longitude |-> longitude]]]

(* findByIdAndUpdate(id, updateData): $set of each top-level key. *)
ApplySet(doc, updateData) ==
  [doc EXCEPT !.currentLocation = updateData.currentLocation,
              !.lastUpdated = updateData.lastUpdated,
              !.speed = updateData.speed,
              !.tripStats = updateData.tripStats]

BusEvent(bus, busId) ==
  [busId |-> busId, location |-> bus.currentLocation, speed |-> bus.speed,
   timestamp |-> bus.lastUpdated, tripStats |-> bus.tripStats]

(* BusTracking.jsx 131-136: the listener maps the event over the listed buses. *)
OnBusLocationUpdate(shown, data) ==
  [b \in DOMAIN shown |->
     IF b = data.busId /\ shown[b] # NoLocation THEN data.location ELSE shown[b]]

(* Mutant: io.emit, a broadcast to every connected socket. *)
RoomMembersEveryone(busId) == connected

(* io.to(`bus-${busId}`): the sockets that are in the room now. *)
RoomMembers(busId) == rooms[busId]

(* io.to(room).emit('bus-location-update', event): one copy to each member; *)
(* the page's listener runs when its socket is one of them.                 *)
EmitToRoom(busId, event) ==
  /\ published' = Append(published, event)
  /\ inbox' = [s \in Sockets |->
                 IF s \in RoomMembers(busId)
                 THEN Append(inbox[s], Len(published) + 1)
                 ELSE inbox[s]]
  /\ display' = IF pageOpen /\ PageSocket \in RoomMembers(busId)
                THEN OnBusLocationUpdate(display, event)
                ELSE display

(* adminAuth, the validators and `now = new Date()`, up to the first await. *)
StartLocationUpdate(h, busId, latitude, speed, isAdmin, isValid) ==
  /\ req[h].pc = "idle"
  /\ \A g \in Handlers : g < h => req[g].pc # "idle"
  /\ req' = [req EXCEPT ![h] =
       IF ~isAdmin THEN Done(IdleReq, 403)
       ELSE IF ~isValid THEN Done(IdleReq, 400)
       ELSE [IdleReq EXCEPT !.pc = "findById", !.busId = busId,
                            !.latitude = latitude, !.longitude = Lng0,
                            !.speed = speed, !.now = clock]]
  /\ UNCHANGED <<clock, db, samples, sockVars, pageVars, notifyVars, notificationVars, etaVars,
               listenerVars, frontendVars, routeVars>>

(* The same request, sent only once every earlier one has been answered. *)
StartLocationUpdateSerial(h, busId, latitude, speed, isAdmin, isValid) ==
  /\ \A g \in Handlers : req[g].pc \in {"idle", "done"}
  /\ StartLocationUpdate(h, busId, latitude, speed, isAdmin, isValid)

(* await Bus.findById(req.params.id), then the 404 return. *)
FindById(h) ==
  /\ req[h].pc = "findById"
  /\ req' = [req EXCEPT ![h] =
       IF db[req[h].busId] = Null
       THEN Done([req[h] EXCEPT !.speed = Undefined, !.now = 0], 404)
       ELSE [req[h] EXCEPT !.pc = "findByIdAndUpdate",
                           !.currentBus = db[req[h].busId],
                           \* how many committed samples the document read reflects
                           !.seen = Len(samples[req[h].busId])]]
  /\ UNCHANGED <<clock, db, samples, sockVars, pageVars, notifyVars, notificationVars, etaVars,
               listenerVars, frontendVars, routeVars>>

(* await Bus.findByIdAndUpdate(...), the emit and the response (195-218).  *)
(* req.app.get('io') is undefined, so io.to throws and the catch answers   *)
(* 500; a bus deleted in between makes bus null and bus._id throws too.    *)
FindByIdAndUpdate(h) ==
  LET r == req[h]
      found == db[r.busId] # Null
      updateData == UpdateData(r.currentBus, r.latitude, r.longitude, r.speed, r.now)
      bus == IF found THEN ApplySet(db[r.busId], updateData) ELSE Null
      emits == AppGet("io") # "undefined" /\ found
  IN /\ r.pc = "findByIdAndUpdate"
     /\ db' = IF found THEN [db EXCEPT ![r.busId] = bus] ELSE db
     /\ samples' = IF found
                   THEN [samples EXCEPT ![r.busId] = Append(@, bus.currentLocation)]
                   ELSE samples
     /\ IF emits
        THEN EmitToRoom(r.busId, BusEvent(bus, r.busId))
        ELSE UNCHANGED <<published, inbox, display>>
     /\ req' = [req EXCEPT ![h] =
          [Done(r, IF emits THEN 200 ELSE 500) EXCEPT
             !.currentBus = Null, !.speed = Undefined, !.now = 0,
             !.committed = found, !.emitted = IF emits THEN 1 ELSE 0]]
     /\ UNCHANGED <<clock, connected, rooms, pageOpen, notifyVars, notificationVars, etaVars,
               listenerVars, frontendVars, routeVars>>

(* ------------------- PATCH /api/buses/:id/reset-distance ---------------- *)

(* Mutant: the reset clears the lifetime total instead of the daily one. *)
ResetUpdateClearsTotal(doc, now) ==
  [doc EXCEPT !.tripStats.totalDistance = 0, !.tripStats.tripStartTime = now]

(* Mutant: the reset replaces the whole tripStats object. *)
ResetUpdateReplacesTripStats(doc, now) ==
  [doc EXCEPT !.tripStats = [distanceToday |-> 0, totalDistance |-> 0,
                             tripStartTime |-> now, lastLocation |-> NoLocation]]

(* buses.js 242-248: $set of the two dotted paths. *)
ResetUpdate(doc, now) ==
  [doc EXCEPT !.tripStats.distanceToday = 0, !.tripStats.tripStartTime = now]

ResetDistance(busId) ==
  /\ db[busId] # Null
  /\ db' = [db EXCEPT ![busId] = ResetUpdate(db[busId], clock)]
  /\ UNCHANGED <<clock, req, samples, sockVars, pageVars, notifyVars, notificationVars, etaVars,
               listenerVars, frontendVars, routeVars>>

(* --------------------------- PUT /api/buses/:id ------------------------- *)
PutUpdates(doc, hasLocation, location, now) ==
  [doc EXCEPT !.currentLocation = IF hasLocation THEN location ELSE @,
              !.lastUpdated = now]

UpdateBus(busId, hasLocation, location) ==
  /\ db[busId] # Null
  /\ db' = [db EXCEPT ![busId] = PutUpdates(db[busId], hasLocation, location, clock)]
  /\ UNCHANGED <<clock, req, samples, sockVars, pageVars, notifyVars, notificationVars, etaVars,
               listenerVars, frontendVars, routeVars>>

(* -------------------------- DELETE /api/buses/:id ----------------------- *)
DeleteBus(busId) ==
  /\ db[busId] # Null
  /\ db' = [db EXCEPT ![busId] = Null]
  /\ UNCHANGED <<clock, req, samples, sockVars, pageVars, notifyVars, notificationVars, etaVars,
               listenerVars, frontendVars, routeVars>>

Tick ==
  /\ clock < MaxClock
  /\ clock' = clock + 1
  /\ UNCHANGED <<db, req, samples, sockVars, pageVars, notifyVars, notificationVars, etaVars,
               listenerVars, frontendVars, routeVars>>

(* ------------------------ server.js: Socket.IO -------------------------- *)

(* The sockets opened from an admin's session.  The connection carries no  *)
(* credentials, so the server cannot tell them from the others.            *)
AdminSockets == {s \in Sockets : \A t \in Sockets : t <= s}

(* io.on('connection'); the page's socket exists once getSocket() has run. *)
Connect(s) ==
  /\ s \notin connected
  /\ s = PageSocket => pageOpen
  /\ connected' = connected \cup {s}
  /\ UNCHANGED <<httpVars, rooms, inbox, published, pageVars, notifyVars, notificationVars, etaVars,
               listenerVars, frontendVars, routeVars>>

(* socket.join(`bus-${busId}`): a room is a set of sockets. *)
SocketJoin(rs, s, busId) == [rs EXCEPT ![busId] = @ \cup {s}]

(* Mutant: leaving one room leaves every room. *)
SocketLeaveAll(rs, s, busId) == [b \in DOMAIN rs |-> rs[b] \ {s}]

(* socket.leave(`bus-${busId}`) *)
SocketLeave(rs, s, busId) == [rs EXCEPT ![busId] = @ \ {s}]

(* The indices of the events already published for a bus, in order. *)
PublishedFor(busId) ==
  LET IsFor(i) == published[i].busId = busId
  IN SelectSeq([i \in 1..Len(published) |-> i], IsFor)

(* Mutant: a socket that joins is sent the events it missed. *)
JoinBusTrackingReplays(s, busId) ==
  /\ s \in connected
  /\ s # PageSocket
  /\ rooms' = SocketJoin(rooms, s, busId)
  /\ inbox' = [inbox EXCEPT ![s] = IF s \in rooms[busId] THEN @ ELSE @ \o PublishedFor(busId)]
  /\ UNCHANGED <<httpVars, connected, published, pageVars, notifyVars, notificationVars, etaVars,
               listenerVars, frontendVars, routeVars>>

(* socket.on('join-bus-tracking'): socket.join.  No file of the frontend   *)
(* emits this event, so the page's socket never sends it.                   *)
JoinBusTracking(s, busId) ==
  /\ s \in connected
  /\ s # PageSocket
  /\ rooms' = SocketJoin(rooms, s, busId)
  /\ UNCHANGED <<httpVars, connected, inbox, published, pageVars, notifyVars, notificationVars, etaVars,
               listenerVars, frontendVars, routeVars>>

(* socket.on('leave-bus-tracking'): socket.leave. *)
LeaveBusTracking(s, busId) ==
  /\ s \in connected
  /\ s # PageSocket
  /\ rooms' = SocketLeave(rooms, s, busId)
  /\ UNCHANGED <<httpVars, connected, inbox, published, pageVars, notifyVars, notificationVars, etaVars,
               listenerVars, frontendVars, routeVars>>

(* Mutant: a disconnected socket stays in its rooms. *)
DisconnectKeepsRooms(s) ==
  /\ s \in connected
  /\ connected' = connected \ {s}
  /\ UNCHANGED <<httpVars, rooms, inbox, published, pageVars, notifyVars, notificationVars, etaVars,
               listenerVars, frontendVars, routeVars>>

(* socket.on('disconnect'): Socket.IO has taken the socket out of its rooms. *)
Disconnect(s) ==
  /\ s \in connected
  /\ connected' = connected \ {s}
  /\ rooms' = [b \in BusIds |-> rooms[b] \ {s}]
  /\ UNCHANGED <<httpVars, inbox, published, pageVars, notifyVars, notificationVars, etaVars,
               listenerVars, frontendVars, routeVars>>

(* socket.on('update-bus-location'): re-broadcast to the bus's room. *)
UpdateBusLocation(s, busId, location) ==
  /\ s \in connected
  /\ s # PageSocket
  /\ Len(published) < MaxEvents
  /\ EmitToRoom(busId, [busId |-> busId, location |-> location, timestamp |-> clock])
  /\ UNCHANGED <<httpVars, connected, rooms, pageOpen, notifyVars, notificationVars, etaVars,
               listenerVars, frontendVars, routeVars>>

(* ------------------------- BusTracking.jsx page ------------------------- *)

(* useEffect with a user: fetchData fills `buses`, the listener is set. *)
PageMount ==
  /\ ~pageOpen
  /\ pageOpen' = TRUE
  /\ display' = [b \in BusIds |->
                   IF db[b] = Null THEN NoLocation ELSE db[b].currentLocation]
  /\ UNCHANGED <<httpVars, sockVars, notifyVars, notificationVars, etaVars,
               listenerVars, frontendVars, routeVars>>

(* the effect's cleanup: socket.off('bus-location-update'). *)
PageUnmount ==
  /\ pageOpen
  /\ pageOpen' = FALSE
  /\ UNCHANGED <<httpVars, sockVars, display, notifyVars, notificationVars, etaVars,
               listenerVars, frontendVars, routeVars>>

(* ------------------- notificationUtils: the notifier -------------------- *)
ApproachRadius == 500
StopLats == {0, 9}
ProximityLats == {0, 4, 5, 9}
Stop(lat) == [_id |-> lat, location |-> Coord(lat)]

(* calculateDistance(point1, point2) *)
CalculateDistance(point1, point2) ==
  Haversine(point1.latitude, point1.longitude, point2.latitude, point2.longitude)

NoStop == [isNull |-> TRUE]

(* stops.reduce((nearest, stop) => ..., null): the fold over stops[1..n]. *)
RECURSIVE NearestStop(_, _, _)
NearestStop(location, stopArray, n) ==
  IF n = 0 THEN NoStop
  ELSE LET nearest == NearestStop(location, stopArray, n - 1)
           distance == CalculateDistance(location, stopArray[n].location)
       IN IF nearest = NoStop \/ distance < nearest.distance
          THEN [stop |-> stopArray[n], distance |-> distance]
          ELSE nearest

(* checkAndNotifyBusUpdates: the ids of the stops an arrival notification  *)
(* is shown for (showBusArrivalNotification is called once, or not at all). *)
CheckAndNotifyBusUpdates(tracked, busUpdate, stopArray) ==
  IF busUpdate.busId \notin tracked THEN {}
  ELSE LET nearestStop == NearestStop(busUpdate.location, stopArray, Len(stopArray))
       IN IF nearestStop # NoStop /\ nearestStop.distance <= ApproachRadius
          THEN {nearestStop.stop._id}
          ELSE {}

(* One 'bus-location-update' handed to the notifier. *)
NotifyBusUpdate(busId, location) ==
  LET busUpdate == [busId |-> busId, location |-> location]
  IN /\ raised' = CheckAndNotifyBusUpdates(trackedBuses, busUpdate, stops)
     /\ prevLocation' = lastSeen[busId]
     /\ lastSeen' = [lastSeen EXCEPT ![busId] = location]
     /\ lastUpdate' = busUpdate
     /\ UNCHANGED <<httpVars, sockVars, pageVars, trackedBuses, stops,
                    notificationVars, etaVars,
               listenerVars, frontendVars, routeVars>>

(* ----------------------- POST /api/notifications ----------------------- *)
UserIds == {1, 2}              \* the users that exist
TargetIds == {1, 2, 3}         \* ids a request may name; 3 is no user's id

(* The user logged in on the browser that opened each socket. *)
SocketUser == [s \in Sockets |-> IF s = PageSocket THEN 1 ELSE 2]

(* io.to(`user-${userId}`): no handler of server.js joins a socket to a    *)
(* user room, so the room has no members.                                  *)
UserRoomMembers(userId) == {}

(* notifications.js 86-93: the sockets the new notification is emitted to. *)
NotificationRecipients(targetUsers) ==
  IF targetUsers # {}
  THEN UNION {UserRoomMembers(userId) : userId \in targetUsers}
  ELSE connected

(* router.post('/'): adminAuth, the validators, the target check, save,    *)
(* then the emit through req.app.get('io'), which is undefined: the        *)
(* TypeError is caught and answered with 500 after the save.               *)
CreateNotification(targetUsers, isAdmin, isValid) ==
  LET usersExist == targetUsers \cap UserIds
      accepted == isAdmin /\ isValid /\ usersExist = targetUsers
      emits == accepted /\ AppGet("io") # "undefined"
      n == Len(notifications) + 1
  IN /\ Len(notifications) < MaxNotifications
     /\ notifications' = Append(notifications,
          [targetUsers |-> targetUsers,
           saved |-> accepted,
           status |-> IF ~isAdmin THEN 403
                      ELSE IF ~accepted THEN 400
                      ELSE IF emits THEN 201 ELSE 500])
     /\ delivered' = [s \in Sockets |->
                        IF emits /\ s \in NotificationRecipients(targetUsers)
                        THEN delivered[s] \cup {n}
                        ELSE delivered[s]]
     /\ UNCHANGED <<httpVars, sockVars, pageVars, notifyVars, etaVars,
               listenerVars, frontendVars, routeVars>>

(* ----------------------- locationUtils: the ETAs ------------------------ *)
DefaultSpeed == 30000          \* averageSpeed = 30, currentSpeed = 30 (km/h)
MinimumSpeed == 5000           \* Math.max(currentSpeed, 5)
EtaLats == {0, 1, 2, 3, 5, 9, 135, 269, 274, 300, 541}
EtaSpeeds == {Undefined, 1000, 5000, 30000, 60000}

(* locationUtils.calculateDistance(point1, point2) *)
LocationUtilsCalculateDistance(point1, point2) ==
  Haversine(point1.latitude, point1.longitude, point2.latitude, point2.longitude)

(* Math.round(distance / speed * 60) of non-negative operands: half rounds up. *)
TimeInMinutes(distance, speed) == (2 * distance * MinutesPerHour + speed) \div (2 * speed)

(* Mutant: the text of calculateETA without the singular case. *)
EtaTextNoSingular(timeInMinutes) ==
  IF timeInMinutes < 1 THEN "Arriving now"
  ELSE IF timeInMinutes < 60 THEN ToString(timeInMinutes) \o " mins"
  ELSE ToString(timeInMinutes \div 60) \o "h " \o ToString(timeInMinutes % 60) \o "m"

(* calculateETA 46-57: the if / else-if chain. *)
EtaText(timeInMinutes) ==
  IF timeInMinutes < 1 THEN "Arriving now"
  ELSE IF timeInMinutes = 1 THEN "1 min"
  ELSE IF timeInMinutes < 60 THEN ToString(timeInMinutes) \o " mins"
  ELSE LET hours == timeInMinutes \div 60
           mins == timeInMinutes % 60
       IN ToString(hours) \o "h " \o ToString(mins) \o "m"

(* calculateStopETA 225-228: the conditional expression. *)
StopEtaText(timeInMinutes) ==
  IF timeInMinutes < 1 THEN "Arriving now"
  ELSE IF timeInMinutes = 1 THEN "1 min"
  ELSE IF timeInMinutes < 60 THEN ToString(timeInMinutes) \o " mins"
  ELSE ToString(timeInMinutes \div 60) \o "h " \o ToString(timeInMinutes % 60) \o "m"

Max(a, b) == IF a > b THEN a ELSE b

NoEta == [fn |-> "none"]

(* calculateETA(currentLocation, destination, averageSpeed = 30); the      *)
(* returned distance is rounded to 2 decimals of a km, that is to 10 m.    *)
CalculateETA(currentLocation, destination, averageSpeed) ==
  LET speed == IF averageSpeed = Undefined THEN DefaultSpeed ELSE averageSpeed
      distance == LocationUtilsCalculateDistance(currentLocation, destination)
      timeInMinutes == TimeInMinutes(distance, speed)
  IN /\ etaResult' =
          [fn |-> "calculateETA", from |-> currentLocation, to |-> destination,
           speed |-> speed,
           distance |-> ((distance + 5) \div 10) * 10,
           eta |-> timeInMinutes,
           etaText |-> EtaText(timeInMinutes)]
     /\ UNCHANGED <<httpVars, sockVars, pageVars, notifyVars, notificationVars,
                   listenerVars, frontendVars, routeVars>>

(* calculateStopETA(currentLocation, nextStop, currentSpeed = 30) *)
CalculateStopETA(currentLocation, nextStop, currentSpeed) ==
  LET speed == Max(IF currentSpeed = Undefined THEN DefaultSpeed ELSE currentSpeed,
                   MinimumSpeed)
      distance == LocationUtilsCalculateDistance(currentLocation, nextStop.location)
      timeInMinutes == TimeInMinutes(distance, speed)
  IN /\ etaResult' =
          [fn |-> "calculateStopETA", from |-> currentLocation, to |-> nextStop.location,
           speed |-> speed,
           distance |-> distance,
           eta |-> timeInMinutes,
           etaText |-> StopEtaText(timeInMinutes)]
     /\ UNCHANGED <<httpVars, sockVars, pageVars, notifyVars, notificationVars,
                   listenerVars, frontendVars, routeVars>>

(* ------------------------------ DriverPanel ----------------------------- *)
MaxPatches == 3       \* PATCH /buses/:id/location requests the panel issues
MaxWatches == 2       \* ids navigator.geolocation.watchPosition hands out

(* The panel before it is mounted; a null watchId state is Undefined. *)
DriverInit ==
  [mounted |-> FALSE,
   selectedBus |-> FALSE,         \* a bus is selected
   isTracking |-> FALSE,
   watchId |-> Undefined,         \* the watchId state
   cleanupWatchId |-> Undefined,  \* the watchId the effect's cleanup closed over
   watches |-> {},                \* the browser's active geolocation watches
   nextWatch |-> 1,               \* the id the next watchPosition returns
   interval |-> FALSE,            \* locationInterval.current is a running timer
   pendingPosition |-> FALSE,     \* a getCurrentPosition call has not answered
   stopped |-> FALSE,             \* tracking was started and has been stopped
   patches |-> 0]                 \* PATCH requests issued so far

DriverFrame ==
  UNCHANGED <<httpVars, sockVars, pageVars, notifyVars, notificationVars, etaVars,
              listenerVars, stopResult, apiRequest, routeVars>>

(* The first render and its effect: the cleanup closes over this render's  *)
(* stopLocationTracking, whose watchId is the initial null.  Watches of an *)
(* earlier instance belong to the browser and outlive it.                  *)
DriverMount ==
  /\ ~driver.mounted
  /\ driver' = [driver EXCEPT !.mounted = TRUE, !.selectedBus = FALSE,
                              !.isTracking = FALSE, !.watchId = Undefined,
                              !.cleanupWatchId = Undefined]
  /\ DriverFrame

(* handleBusChange *)
HandleBusChange ==
  /\ driver.mounted
  /\ ~driver.selectedBus
  /\ driver' = [driver EXCEPT !.selectedBus = TRUE]
  /\ DriverFrame

(* startLocationTracking; the Start button is disabled without a selected  *)
(* bus and while tracking.                                                 *)
StartLocationTracking ==
  /\ driver.mounted /\ driver.selectedBus /\ ~driver.isTracking
  /\ driver.nextWatch <= MaxWatches
  /\ driver' = [driver EXCEPT !.isTracking = TRUE,
                              !.pendingPosition = TRUE,
                              !.watches = @ \cup {driver.nextWatch},
                              !.watchId = driver.nextWatch,
                              !.nextWatch = @ + 1,
                              !.interval = TRUE,
                              !.stopped = FALSE]
  /\ DriverFrame

(* stopLocationTracking as a closure over the given watchId (183-195). *)
StopTracking(d, watchId) ==
  [d EXCEPT !.isTracking = FALSE,
            !.watches = IF watchId # Undefined THEN @ \ {watchId} ELSE @,
            !.watchId = IF watchId # Undefined THEN Undefined ELSE @,
            !.interval = FALSE,
            !.stopped = TRUE]

(* The Stop button: stopLocationTracking of the current render. *)
StopLocationTracking ==
  /\ driver.mounted /\ driver.isTracking
  /\ driver' = StopTracking(driver, driver.watchId)
  /\ DriverFrame

(* Unmount: the effect's cleanup calls the stopLocationTracking it closed  *)
(* over at mount.                                                          *)
DriverUnmount ==
  /\ driver.mounted
  /\ driver' = [StopTracking(driver, driver.cleanupWatchId) EXCEPT
                  !.mounted = FALSE,
                  !.stopped = driver.isTracking \/ driver.stopped]
  /\ DriverFrame

(* updateBusLocation: one PATCH /buses/:id/location. *)
IssuePatch(d) == [d EXCEPT !.patches = @ + 1]

(* The success callback of getCurrentPosition. *)
PositionCallback ==
  /\ driver.pendingPosition
  /\ driver.patches < MaxPatches
  /\ driver' = [IssuePatch(driver) EXCEPT !.pendingPosition = FALSE]
  /\ DriverFrame

(* The success callback of an active watchPosition. *)
WatchCallback ==
  /\ driver.watches # {}
  /\ driver.patches < MaxPatches
  /\ driver' = IssuePatch(driver)
  /\ DriverFrame

(* The 30-second backup interval fires; handleBusChange has set the        *)
(* currentLocation it closed over.                                         *)
IntervalCallback ==
  /\ driver.interval
  /\ driver.patches < MaxPatches
  /\ driver' = IssuePatch(driver)
  /\ DriverFrame

(* ------------------------------- parseInt ------------------------------ *)

(* A JavaScript number that is an integer, or NaN. *)
Num(v) == [isNaN |-> FALSE, value |-> v]
NaN == [isNaN |-> TRUE, value |-> 0]

(* Comparisons with NaN are false. *)
LessThan(a, b) == ~a.isNaN /\ ~b.isNaN /\ a.value < b.value
GreaterOrEqual(a, b) == ~a.isNaN /\ ~b.isNaN /\ a.value >= b.value

Digits == <<"0", "1", "2", "3", "4", "5", "6", "7", "8", "9">>
IsDigit(c) == \E d \in 1..Len(Digits) : Digits[d] = c
DigitValue(c) == (CHOOSE d \in 1..Len(Digits) : Digits[d] = c) - 1

(* The run of decimal digits of a string from position i on. *)
RECURSIVE ParseDigits(_, _, _, _)
ParseDigits(chars, i, value, count) ==
  IF i > Len(chars) \/ ~IsDigit(chars[i])
  THEN [value |-> value, count |-> count]
  ELSE ParseDigits(chars, i + 1, value * 10 + DigitValue(chars[i]), count + 1)

(* parseInt(string) of a string without white space, given as the sequence *)
(* of its characters: an optional sign, then the longest run of digits;    *)
(* NaN when there is no digit there.                                       *)
ParseInt(chars) ==
  LET signed == Len(chars) > 0 /\ chars[1] \in {"-", "+"}
      digits == ParseDigits(chars, IF signed THEN 2 ELSE 1, 0, 0)
  IN IF digits.count = 0 THEN NaN
     ELSE IF signed /\ chars[1] = "-" THEN Num(-digits.value)
     ELSE Num(digits.value)

(* ----------------------- services/api: the 429 retry -------------------- *)
MaxAttempts == 3      \* times one request may be sent
MaxDelay == 10000              \* Math.min(..., 10000)
MsPerSecond == 1000            \* parseInt(retryAfter) * 1000
ApiRequests == {1, 2}          \* requests in flight at once
Statuses == {200, 401, 429, 500}
NoHeader == << >>              \* no retry-after header
RetryAfterHeaders == {NoHeader, <<"0">>, <<"1">>, <<"5">>, <<"1", "0">>, <<"6", "0">>}

ApiIdle ==
  [pc |-> "idle", _retry |-> FALSE, attempts |-> 0, retryAfter |-> NoHeader,
   delay |-> Undefined, status |-> 0, outcome |-> "none"]

Min(a, b) == IF a < b THEN a ELSE b

(* lines 46-47: retryAfter = header || 1, delay = min(parseInt * 1000, 10000) *)
RetryDelay(header) ==
  LET retryAfter == IF header = NoHeader THEN Num(1) ELSE ParseInt(header)
  IN Min(retryAfter.value * MsPerSecond, MaxDelay)

Settle(r, status, outcome) ==
  [r EXCEPT !.pc = "settled", !.status = status, !.outcome = outcome]

(* Mutant: the interceptor does not look at originalRequest._retry. *)
InterceptorAlwaysRetries(r, status, header) ==
  IF status = 200 THEN Settle(r, status, "resolved")
  ELSE IF status = 401 THEN Settle(r, status, "rejected")
  ELSE IF status = 429
    THEN [r EXCEPT !.pc = "waiting", !._retry = TRUE, !.status = status,
                   !.retryAfter = header, !.delay = RetryDelay(header)]
  ELSE Settle(r, status, "rejected")

(* The response interceptors (30-58) applied to one response. *)
Interceptor(r, status, header) ==
  IF status = 200 THEN Settle(r, status, "resolved")
  ELSE IF status = 401 THEN Settle(r, status, "rejected")
  ELSE IF status = 429 /\ ~r._retry
    THEN [r EXCEPT !.pc = "waiting", !._retry = TRUE, !.status = status,
                   !.retryAfter = header, !.delay = RetryDelay(header)]
  ELSE Settle(r, status, "rejected")

ApiFrame ==
  UNCHANGED <<httpVars, sockVars, pageVars, notifyVars, notificationVars, etaVars,
              listenerVars, stopResult, driver, routeVars>>

(* A page calls api.get / api.patch / ... *)
ApiSend(q) ==
  /\ apiRequest[q].pc = "idle"
  /\ apiRequest' = [apiRequest EXCEPT ![q] = [@ EXCEPT !.pc = "sent", !.attempts = 1]]
  /\ ApiFrame

(* The server's answer reaches the interceptor. *)
ApiResponse(q, status, header) ==
  /\ apiRequest[q].pc = "sent"
  /\ apiRequest' = [apiRequest EXCEPT ![q] = Interceptor(@, status, header)]
  /\ ApiFrame

(* The setTimeout of line 52 fires: api(originalRequest). *)
ApiTimer(q) ==
  /\ apiRequest[q].pc = "waiting"
  /\ apiRequest[q].attempts < MaxAttempts
  /\ apiRequest' = [apiRequest EXCEPT ![q] =
                      [@ EXCEPT !.pc = "sent", !.attempts = @ + 1, !.status = 0]]
  /\ ApiFrame

(* ---------------------- routes: a route's waypoints ---------------------- *)
MaxWaypoints == 3     \* waypoints of the route
WaypointNames == {"a", "b"}
IndexParams ==
  {<<"0">>, <<"1">>, <<"2">>, <<"3">>, <<"-", "1">>, <<"a", "b", "c">>, <<"1", "x">>}

NoRouteResponse == [op |-> "none", param |-> << >>, status |-> 0]

RouteFrame ==
  UNCHANGED <<httpVars, sockVars, pageVars, notifyVars, notificationVars, etaVars,
              listenerVars, frontendVars>>

(* POST /:id/waypoints: route.waypoints.push, route.save. *)
AddWaypoint(name) ==
  /\ Len(route.waypoints) < MaxWaypoints
  /\ route' = [route EXCEPT !.waypoints = Append(@, name)]
  /\ routeResponse' = [op |-> "add", param |-> << >>, status |-> 200]
  /\ RouteFrame

(* array.splice(start, 1): a NaN start counts as 0, a negative one counts  *)
(* from the end, a start past the end removes nothing.                     *)
Splice(array, start) ==
  LET relative == IF start.isNaN THEN 0 ELSE start.value
      from == IF relative < 0
              THEN (IF Len(array) + relative < 0 THEN 0 ELSE Len(array) + relative)
              ELSE relative
  IN IF from >= Len(array) THEN array
     ELSE SubSeq(array, 1, from) \o SubSeq(array, from + 2, Len(array))

(* DELETE /:id/waypoints/:waypointIndex (382-405) for an existing route. *)
RemoveWaypoint(param, isAdmin) ==
  LET waypointIndex == ParseInt(param)
      invalid == \/ LessThan(waypointIndex, Num(0))
                 \/ GreaterOrEqual(waypointIndex, Num(Len(route.waypoints)))
  IN /\ route' = IF isAdmin /\ ~invalid
                  THEN [route EXCEPT !.waypoints = Splice(@, waypointIndex)]
                  ELSE route
     /\ routeResponse' = [op |-> "remove", param |-> param,
                          status |-> IF ~isAdmin THEN 403
                                     ELSE IF invalid THEN 400 ELSE 200]
     /\ RouteFrame

(* ------------- BusTracking.jsx: tracked buses and the listener ---------- *)

(* fetchData resolves: setStops, setTrackedBuses (107-110). *)
FetchData(tracked, stopArray) ==
  /\ pageOpen
  /\ trackedBuses = {} /\ stops = << >>
  /\ trackedBuses' = tracked
  /\ stops' = stopArray
  /\ UNCHANGED <<httpVars, sockVars, pageVars, lastSeen, prevLocation, lastUpdate, raised,
                 notificationVars, etaVars, listenerVars, frontendVars, routeVars>>

(* handleTrackBus: the bus, if it is listed, is added to the tracked ones. *)
HandleTrackBus(busId) ==
  /\ pageOpen
  /\ display[busId] # NoLocation
  /\ busId \notin trackedBuses
  /\ trackedBuses' = trackedBuses \cup {busId}
  /\ UNCHANGED <<httpVars, sockVars, pageVars, stops, lastSeen, prevLocation, lastUpdate,
                 raised, notificationVars, etaVars, listenerVars, frontendVars, routeVars>>

(* handleUntrackBus *)
HandleUntrackBus(busId) ==
  /\ pageOpen
  /\ busId \in trackedBuses
  /\ trackedBuses' = trackedBuses \ {busId}
  /\ UNCHANGED <<httpVars, sockVars, pageVars, stops, lastSeen, prevLocation, lastUpdate,
                 raised, notificationVars, etaVars, listenerVars, frontendVars, routeVars>>

(* The effect runs again because `user` changed while the page is mounted: *)
(* the old listener is removed and a new one closes over the trackedBuses  *)
(* and stops of this render.                                               *)
UserChanged ==
  /\ pageOpen
  /\ listenerTracked' = trackedBuses
  /\ listenerStops' = stops
  /\ UNCHANGED <<httpVars, sockVars, pageVars, notifyVars, notificationVars, etaVars,
                 frontendVars, routeVars>>

(* What the listener passes to checkAndNotifyBusUpdates (line 145): the    *)
(* trackedBuses and stops of the render that registered it.  The first     *)
(* effect runs in the first render, where both are the initial [].         *)
ListenerArguments == [trackedBuses |-> listenerTracked, stops |-> listenerStops]

(* The listener of 'bus-location-update' (131-146) run for one event. *)
HandleBusLocationUpdate(busId, location) ==
  LET data == [busId |-> busId, location |-> location]
  IN /\ pageOpen
     /\ display' = OnBusLocationUpdate(display, data)
     /\ raised' = CheckAndNotifyBusUpdates(ListenerArguments.trackedBuses, data,
                                           ListenerArguments.stops)
     /\ prevLocation' = lastSeen[busId]
     /\ lastSeen' = [lastSeen EXCEPT ![busId] = location]
     /\ lastUpdate' = data
     /\ UNCHANGED <<httpVars, sockVars, pageOpen, trackedBuses, stops, notificationVars,
                    etaVars, listenerVars, frontendVars, routeVars>>

(* --------------------- locationUtils: stop lookups ---------------------- *)
DefaultRadius == 500           \* radiusInKm = 0.5
LookupLats == {0, 2}           \* where the bus or the user is
LookupStopLats == {0, 1, 3, 5, 7}
Radii == {Undefined, 111, 333}

(* A `stops` argument: an array, or nothing at all (undefined / null). *)
StopsArray(items) == [isArray |-> TRUE, items |-> items]
NoStopsArray == [isArray |-> FALSE, items |-> << >>]
LookupStopsArgs ==
  {NoStopsArray, StopsArray(<< >>)}
    \cup {StopsArray(<<Stop(a)>>) : a \in LookupStopLats}
    \cup {StopsArray(<<Stop(p[1]), Stop(p[2])>>) :
            p \in {q \in LookupStopLats \X LookupStopLats : q[1] # q[2]}}
    \cup {StopsArray(<<Stop(p[1]), Stop(p[2]), Stop(p[3])>>) :
            p \in {q \in LookupStopLats \X LookupStopLats \X LookupStopLats :
                     q[1] # q[2] /\ q[1] # q[3] /\ q[2] # q[3]}}

NoStopCall == [fn |-> "none"]

(* Mutant: a later stop at the same distance replaces the nearest so far. *)
RECURSIVE NearestScanLastWins(_, _, _)
NearestScanLastWins(location, items, n) ==
  IF n = 1
  THEN [index |-> 1, minDistance |-> LocationUtilsCalculateDistance(location, items[1].location)]
  ELSE LET nearest == NearestScanLastWins(location, items, n - 1)
           distance == LocationUtilsCalculateDistance(location, items[n].location)
       IN IF distance <= nearest.minDistance
          THEN [index |-> n, minDistance |-> distance]
          ELSE nearest

(* findNearestStop 75-84: nearestStop and minDistance after stops[0..n-1]. *)
RECURSIVE NearestScan(_, _, _)
NearestScan(location, items, n) ==
  IF n = 1
  THEN [index |-> 1, minDistance |-> LocationUtilsCalculateDistance(location, items[1].location)]
  ELSE LET nearest == NearestScan(location, items, n - 1)
           distance == LocationUtilsCalculateDistance(location, items[n].location)
       IN IF distance < nearest.minDistance
          THEN [index |-> n, minDistance |-> distance]
          ELSE nearest

(* findNearestStop(location, stops): the stop's fields and the distance    *)
(* rounded to 2 decimals of a km (10 m), or null.                          *)
FindNearestStop(location, stopsArg) ==
  IF ~stopsArg.isArray \/ Len(stopsArg.items) = 0 THEN NoStop
  ELSE LET nearest == NearestScan(location, stopsArg.items, Len(stopsArg.items))
           nearestStop == stopsArg.items[nearest.index]
       IN [_id |-> nearestStop._id, location |-> nearestStop.location,
           distance |-> ((nearest.minDistance + 5) \div 10) * 10]

(* Mutant: a stop exactly on the radius is not within it. *)
RECURSIVE ApproachScanStrict(_, _, _, _)
ApproachScanStrict(busLocation, items, radius, i) ==
  IF i > Len(items) THEN NoStop
  ELSE LET distance == LocationUtilsCalculateDistance(busLocation, items[i].location)
       IN IF distance < radius
          THEN [stop |-> items[i], distance |-> distance, isApproaching |-> distance <= radius]
          ELSE ApproachScanStrict(busLocation, items, radius, i + 1)

(* checkBusApproachingStop 155-166: the for-of loop from stops[i-1] on. *)
RECURSIVE ApproachScan(_, _, _, _)
ApproachScan(busLocation, items, radius, i) ==
  IF i > Len(items) THEN NoStop
  ELSE LET distance == LocationUtilsCalculateDistance(busLocation, items[i].location)
       IN IF distance <= radius
          THEN [stop |-> items[i], distance |-> distance, isApproaching |-> distance <= radius]
          ELSE ApproachScan(busLocation, items, radius, i + 1)

(* checkBusApproachingStop(busLocation, stops, radiusInKm = 0.5) *)
CheckBusApproachingStop(busLocation, stopsArg, radiusInKm) ==
  LET radius == IF radiusInKm = Undefined THEN DefaultRadius ELSE radiusInKm
  IN IF ~stopsArg.isArray \/ Len(stopsArg.items) = 0 THEN NoStop
     ELSE ApproachScan(busLocation, stopsArg.items, radius, 1)

FindNearestStopCall(location, stopsArg) ==
  /\ stopResult' = [fn |-> "findNearestStop", location |-> location, stops |-> stopsArg,
                     radius |-> Undefined,
                     result |-> FindNearestStop(location, stopsArg)]
  /\ UNCHANGED <<httpVars, sockVars, pageVars, notifyVars, notificationVars, etaVars,
                 listenerVars, driver, apiRequest, routeVars>>

CheckBusApproachingStopCall(busLocation, stopsArg, radiusInKm) ==
  /\ stopResult' = [fn |-> "checkBusApproachingStop", location |-> busLocation,
                     stops |-> stopsArg, radius |-> radiusInKm,
                     result |-> CheckBusApproachingStop(busLocation, stopsArg, radiusInKm)]
  /\ UNCHANGED <<httpVars, sockVars, pageVars, notifyVars, notificationVars, etaVars,
                 listenerVars, driver, apiRequest, routeVars>>

(* ------------------------------ initial states ------------------------- *)
FreshBus == NewBus(Coord(0), 0)

(* A bus that has already taken one location update, at Coord(0) at time 0. *)
WarmBus == ApplySet(FreshBus, UpdateData(FreshBus, 0, Lng0, Undefined, 0))

InitOthers ==
  /\ clock = 0
  /\ req = [h \in Handlers |-> IdleReq]
  /\ connected = {}
  /\ rooms = [b \in BusIds |-> {}]
  /\ inbox = [s \in Sockets |-> << >>]
  /\ published = << >>
  /\ pageOpen = FALSE
  /\ display = [b \in BusIds |-> NoLocation]
  /\ notifications = << >>
  /\ delivered = [s \in Sockets |-> {}]
  /\ etaResult = NoEta
  /\ listenerTracked = {}
  /\ listenerStops = << >>
  /\ stopResult = NoStopCall
  /\ driver = DriverInit
  /\ apiRequest = [q \in ApiRequests |-> ApiIdle]
  /\ route = [waypoints |-> << >>]
  /\ routeResponse = NoRouteResponse

NoUpdate == [busId |-> 0, location |-> NoLocation]

InitNotifier ==
  /\ trackedBuses = {}
  /\ stops = << >>
  /\ lastSeen = [b \in BusIds |-> NoLocation]
  /\ prevLocation = NoLocation
  /\ lastUpdate = NoUpdate
  /\ raised = {}

(* The notifier on its own: any tracked set, any array of distinct stops. *)
StopArrays ==
  {<< >>} \cup {<<Stop(a)>> : a \in StopLats}
          \cup {<<Stop(a), Stop(b)>> : <<a, b>> \in {p \in StopLats \X StopLats : p[1] # p[2]}}

NotifyInit ==
  /\ db = [b \in BusIds |-> FreshBus]
  /\ samples = [b \in BusIds |-> << >>]
  /\ InitOthers
  /\ trackedBuses \in SUBSET BusIds
  /\ stops \in StopArrays
  /\ lastSeen = [b \in BusIds |-> NoLocation]
  /\ prevLocation = NoLocation
  /\ lastUpdate = NoUpdate
  /\ raised = {}

InitFresh ==
  /\ db = [b \in BusIds |-> FreshBus]
  /\ samples = [b \in BusIds |-> << >>]
  /\ InitOthers
  /\ InitNotifier

(* Buses as created, or already in service. *)
Init ==
  /\ \E warm \in SUBSET HttpBusIds :
       /\ db = [b \in BusIds |-> IF b \in warm THEN WarmBus ELSE FreshBus]
       /\ samples = [b \in BusIds |-> IF b \in warm THEN <<Coord(0)>> ELSE << >>]
  /\ InitOthers
  /\ InitNotifier

(* ------------------------------ specifications ------------------------- *)

(* The HTTP routes, with two location requests free to overlap. *)
Next ==
  \/ Tick
  \/ \E h \in Overlapping, b \in HttpBusIds, lat \in Lats, spd \in Speeds,
        isAdmin \in BOOLEAN, isValid \in BOOLEAN :
       StartLocationUpdate(h, b, lat, spd, isAdmin, isValid)
  \/ \E h \in Handlers : FindById(h)
  \/ \E h \in Handlers : FindByIdAndUpdate(h)
  \/ \E b \in HttpBusIds : ResetDistance(b)
  \/ \E b \in HttpBusIds, hasLocation \in BOOLEAN, loc \in Coords :
       UpdateBus(b, hasLocation, loc)
  \/ \E b \in HttpBusIds : DeleteBus(b)

Spec == Init /\ [][Next]_vars

(* The HTTP routes, each location request sent after the previous answer. *)
SeqNext ==
  \/ Tick
  \/ \E h \in Handlers, b \in HttpBusIds, lat \in Lats, spd \in Speeds,
        isAdmin \in BOOLEAN, isValid \in BOOLEAN :
       StartLocationUpdateSerial(h, b, lat, spd, isAdmin, isValid)
  \/ \E h \in Handlers : FindById(h)
  \/ \E h \in Handlers : FindByIdAndUpdate(h)
  \/ \E b \in HttpBusIds : ResetDistance(b)
  \/ \E b \in HttpBusIds, hasLocation \in BOOLEAN, loc \in Coords :
       UpdateBus(b, hasLocation, loc)
  \/ \E b \in HttpBusIds : DeleteBus(b)

SeqSpec == InitFresh /\ [][SeqNext]_vars

(* The Socket.IO side: connections, rooms, the socket handler's broadcast. *)
SockNext ==
  \/ PageMount
  \/ PageUnmount
  \/ \E s \in Sockets : Connect(s)
  \/ \E s \in Sockets : Disconnect(s)
  \/ \E s \in Sockets, b \in BusIds : JoinBusTracking(s, b)
  \/ \E s \in Sockets, b \in BusIds : LeaveBusTracking(s, b)
  \/ \E s \in Sockets, b \in BusIds, loc \in Coords : UpdateBusLocation(s, b, loc)

SockSpec == InitFresh /\ [][SockNext]_vars

(* The page open on a live server: fairness for the steps the server and  *)
(* Socket.IO take on their own once a request or a connection is accepted.  *)
LiveNext ==
  \/ PageMount
  \/ \E s \in Sockets : Connect(s)
  \/ \E s \in Sockets, b \in BusIds : JoinBusTracking(s, b)
  \/ \E s \in Sockets, b \in BusIds, loc \in Coords : UpdateBusLocation(s, b, loc)
  \/ \E b \in BusIds, lat \in Lats, spd \in Speeds,
        isAdmin \in BOOLEAN, isValid \in BOOLEAN :
       StartLocationUpdate(1, b, lat, spd, isAdmin, isValid)
  \/ \E h \in Handlers : FindById(h)
  \/ \E h \in Handlers : FindByIdAndUpdate(h)

LiveSpec ==
  /\ InitFresh
  /\ [][LiveNext]_vars
  /\ \A h \in Handlers : WF_vars(FindById(h)) /\ WF_vars(FindByIdAndUpdate(h))

(* The notifier fed a stream of updates. *)
NotifyNext ==
  \E b \in BusIds, lat \in ProximityLats : NotifyBusUpdate(b, Coord(lat))

NotifySpec == NotifyInit /\ [][NotifyNext]_vars

(* The notifications route on a server with sockets coming and going. *)
NotificationNext ==
  \/ PageMount
  \/ \E s \in Sockets : Connect(s)
  \/ \E s \in Sockets : Disconnect(s)
  \/ \E targetUsers \in SUBSET TargetIds, isAdmin \in BOOLEAN, isValid \in BOOLEAN :
       CreateNotification(targetUsers, isAdmin, isValid)

NotificationSpec == InitFresh /\ [][NotificationNext]_vars

(* The two ETA functions called with any pair of points and any speed. *)
EtaNext ==
  \/ \E a \in EtaLats, b \in EtaLats, speed \in EtaSpeeds :
       CalculateETA(Coord(a), Coord(b), speed)
  \/ \E a \in EtaLats, b \in EtaLats, speed \in EtaSpeeds :
       CalculateStopETA(Coord(a), Stop(b), speed)

EtaSpec == InitFresh /\ [][EtaNext]_vars

(* The two stop lookups called with any location, stops and radius. *)
StopNext ==
  \/ \E a \in LookupLats, stopsArg \in LookupStopsArgs :
       FindNearestStopCall(Coord(a), stopsArg)
  \/ \E a \in LookupLats, stopsArg \in LookupStopsArgs, radiusInKm \in Radii :
       CheckBusApproachingStopCall(Coord(a), stopsArg, radiusInKm)

StopSpec == InitFresh /\ [][StopNext]_vars

(* The BusTracking page mounted once, its data, its Track buttons and the *)
(* events its listener is run for.                                          *)
TrackingNext ==
  \/ PageMount
  \/ \E tracked \in SUBSET BusIds, stopArray \in StopArrays : FetchData(tracked, stopArray)
  \/ \E b \in BusIds : HandleTrackBus(b)
  \/ \E b \in BusIds : HandleUntrackBus(b)
  \/ UserChanged
  \/ \E b \in BusIds, lat \in ProximityLats : HandleBusLocationUpdate(b, Coord(lat))

TrackingSpec == InitFresh /\ [][TrackingNext]_vars

(* The DriverPanel and the browser's geolocation callbacks and timer. *)
DriverNext ==
  \/ DriverMount
  \/ HandleBusChange
  \/ StartLocationTracking
  \/ StopLocationTracking
  \/ DriverUnmount
  \/ PositionCallback
  \/ WatchCallback
  \/ IntervalCallback

DriverSpec == InitFresh /\ [][DriverNext]_vars

(* Requests through the axios instance; the server answers every request  *)
(* that was sent and a timer that was set fires.                           *)
ApiNext ==
  \/ \E q \in ApiRequests : ApiSend(q)
  \/ \E q \in ApiRequests, status \in Statuses, header \in RetryAfterHeaders :
       ApiResponse(q, status, header)
  \/ \E q \in ApiRequests : ApiTimer(q)

ApiSpec ==
  /\ InitFresh
  /\ [][ApiNext]_vars
  /\ \A q \in ApiRequests :
       /\ WF_vars(\E status \in Statuses, header \in RetryAfterHeaders :
                    ApiResponse(q, status, header))
       /\ WF_vars(ApiTimer(q))

(* The waypoint routes of one route. *)
RouteNext ==
  \/ \E name \in WaypointNames : AddWaypoint(name)
  \/ \E param \in IndexParams, isAdmin \in BOOLEAN : RemoveWaypoint(param, isAdmin)

RouteSpec == InitFresh /\ [][RouteNext]_vars

(* =============================== claims ================================ *)

(* C1: every location request that commits a new location for an existing *)
(* bus has emitted exactly one 'bus-location-update' event when it ends.   *)
C1_OneEventPerCommit ==
  \A h \in Handlers :
    (req[h].pc = "done" /\ req[h].committed) => req[h].emitted = 1

(* One location update applied to a document, as the handler run alone would. *)
Commit(doc, r) ==
  ApplySet(doc, UpdateData(doc, r.latitude, r.longitude, r.speed, r.now))

(* The document both requests read, when only these two have committed. *)
DocRead(b) == IF Len(samples[b]) = 2 THEN FreshBus ELSE WarmBus

SameTrip(doc, serial) ==
  /\ doc.tripStats.totalDistance = serial.tripStats.totalDistance
  /\ doc.tripStats.lastLocation = serial.tripStats.lastLocation

(* C2: two location updates of one bus that both read the bus before      *)
(* either wrote leave the trip state that applying the two samples one    *)
(* after the other, in some order, produces.                              *)
C2_OverlapIsSerial ==
  \A g \in Overlapping, h \in Overlapping :
    ( /\ g # h
      /\ req[g].pc = "done" /\ req[g].committed
      /\ req[h].pc = "done" /\ req[h].committed
      /\ req[g].busId = req[h].busId
      /\ req[g].seen = req[h].seen
      /\ db[req[g].busId] # Null )
    => LET b == req[g].busId
       IN \/ SameTrip(db[b], Commit(Commit(DocRead(b), req[g]), req[h]))
          \/ SameTrip(db[b], Commit(Commit(DocRead(b), req[h]), req[g]))

(* Some step hands an event for bus b to io.to(room).emit. *)
Publishes(b) ==
  /\ Len(published') = Len(published) + 1
  /\ published'[Len(published')].busId = b

(* C3: a published update event is delivered to exactly the sockets that   *)
(* are members of room bus-<id> at that instant: each member gets it once, *)
(* every other socket gets nothing.                                        *)
C3_ExactlyRoomMembers ==
  [][\A b \in BusIds :
       Publishes(b) =>
         \A s \in Sockets :
           inbox'[s] = IF s \in rooms[b]
                       THEN Append(inbox[s], Len(published'))
                       ELSE inbox[s]]_vars

InboxHas(s, i) == \E k \in 1..Len(inbox[s]) : inbox[s][k] = i

C3_Witness ==
  /\ Len(published) >= 1
  /\ \E s \in Sockets, t \in Sockets, u \in Sockets :
       /\ s # t /\ InboxHas(s, 1) /\ ~InboxHas(t, 1) /\ ~InboxHas(u, 1)
       /\ \E b \in BusIds : b # published[1].busId /\ t \in rooms[b]
       /\ u \in connected /\ \A b \in BusIds : u \notin rooms[b]

(* C4: with the BusTracking page open on a connected socket, a location    *)
(* update the server is committing for a bus the page lists is eventually  *)
(* delivered to the page's listener: the page comes to show the location   *)
(* stored for that bus.                                                    *)
C4_CommittedIsDisplayed ==
  \A h \in Handlers, b \in BusIds :
    ( /\ pageOpen /\ PageSocket \in connected
      /\ req[h].pc = "findByIdAndUpdate" /\ req[h].busId = b
      /\ display[b] # NoLocation )
    ~> (req[h].pc = "done" /\ display[b] = db[b].currentLocation)

Within(location, stop) ==
  location # NoLocation /\ CalculateDistance(location, stop.location) <= ApproachRadius

(* C5: for a tracked bus and a stop, the arrival notification is raised    *)
(* by an update exactly when that update puts the bus within 0.5 km of the *)
(* stop and the update before it did not (edge-triggered: once on entry,   *)
(* not again while inside, again after leaving and re-entering).           *)
C5_EdgeTriggered ==
  \A k \in 1..Len(stops) :
    lastUpdate.busId \in trackedBuses =>
      ( stops[k]._id \in raised
          <=> ( /\ Within(lastUpdate.location, stops[k])
                /\ ~Within(prevLocation, stops[k]) ) )

(* C6: distanceToday never exceeds totalDistance, whatever the             *)
(* interleaving of location updates, resets and admin edits.               *)
C6_TodayAtMostTotal ==
  \A b \in BusIds :
    db[b] # Null => db[b].tripStats.distanceToday <= db[b].tripStats.totalDistance

C6_Witness ==
  \E b \in BusIds :
    /\ db[b] # Null
    /\ db[b].tripStats.distanceToday > 0
    /\ db[b].tripStats.distanceToday < db[b].tripStats.totalDistance
    /\ db[b].currentLocation # db[b].tripStats.lastLocation

(* C7: totalDistance of a bus never decreases from one state to the next. *)
C7_TotalNeverDecreases ==
  [][\A b \in BusIds :
       (db[b] # Null /\ db'[b] # Null) =>
         db'[b].tripStats.totalDistance >= db[b].tripStats.totalDistance]_vars

(* The sum of the distances between consecutive coordinates of a path. *)
RECURSIVE PathLength(_)
PathLength(path) ==
  IF Len(path) < 2 THEN 0
  ELSE Haversine(path[1].latitude, path[1].longitude,
                 path[2].latitude, path[2].longitude) + PathLength(Tail(path))

C9_BaselineIsPreviousUpdate ==
  [][\A h \in Handlers :
       ( /\ req[h].pc = "findByIdAndUpdate"
         /\ req'[h].pc = "done"
         /\ req'[h].committed )
       => /\ db'[req[h].busId].tripStats.lastLocation =
               [latitude |-> req[h].latitude, longitude |-> req[h].longitude]
          /\ req[h].currentBus.tripStats.lastLocation =
               db[req[h].busId].tripStats.lastLocation]_vars

(* C10: a reset sets distanceToday to 0 and tripStartTime to the reset     *)
(* time, and leaves totalDistance, lastLocation, currentLocation, speed    *)
(* and lastUpdated as they were.                                           *)
C10_ResetFrame ==
  [][\A b \in BusIds :
       ResetDistance(b) =>
         /\ db'[b].tripStats.distanceToday = 0
         /\ db'[b].tripStats.tripStartTime = clock
         /\ db'[b].tripStats.totalDistance = db[b].tripStats.totalDistance
         /\ db'[b].tripStats.lastLocation = db[b].tripStats.lastLocation
         /\ db'[b].currentLocation = db[b].currentLocation
         /\ db'[b].speed = db[b].speed
         /\ db'[b].lastUpdated = db[b].lastUpdated]_vars

C10_Witness ==
  \E b \in BusIds :
    /\ db[b] # Null
    /\ db[b].tripStats.distanceToday = 0
    /\ db[b].tripStats.totalDistance > 0
    /\ db[b].tripStats.tripStartTime = clock
    /\ db[b].lastUpdated < clock
    /\ db[b].speed > 0

(* The step in which request h writes its update to a bus that still exists. *)
Commits(h) ==
  /\ req[h].pc = "findByIdAndUpdate"
  /\ req'[h].pc = "done"
  /\ req'[h].committed

(* C11: a location update that supplies a speed, 0 included, stores that   *)
(* speed, whatever the distance increment and the elapsed time.            *)
C11_SuppliedSpeedIsStored ==
  [][\A h \in Handlers :
       (Commits(h) /\ req[h].speed # Undefined)
       => db'[req[h].busId].speed = req[h].speed]_vars

(* C12: a location update that supplies no speed, for a bus whose          *)
(* lastUpdated is not earlier than the request time, leaves the stored     *)
(* speed at the value the bus had.                                         *)
C12_NoElapsedTimeKeepsSpeed ==
  [][\A h \in Handlers :
       ( /\ Commits(h)
         /\ req[h].speed = Undefined
         /\ req[h].now - req[h].currentBus.lastUpdated <= 0
         /\ db[req[h].busId] = req[h].currentBus )
       => db'[req[h].busId].speed = db[req[h].busId].speed]_vars

C14_LastUpdatedNonDecreasing ==
  [][\A h \in Handlers :
       Commits(h) => db'[req[h].busId].lastUpdated >= db[req[h].busId].lastUpdated]_vars

(* C15: a socket that has handled 'leave-bus-tracking' for a bus is out of *)
(* that bus's room, a socket that has disconnected is out of every room,   *)
(* only a new join brings a socket back into a room, and an event          *)
(* published for a bus is not delivered to a socket outside its room.      *)
C15_LeaveAndDisconnectCancel ==
  [][\A s \in Sockets :
       /\ Disconnect(s) => \A b \in BusIds : s \notin rooms'[b]
       /\ \A b \in BusIds :
            /\ LeaveBusTracking(s, b) => s \notin rooms'[b]
            /\ (s \notin rooms[b] /\ s \in rooms'[b]) => JoinBusTracking(s, b)
            /\ (Publishes(b) /\ s \notin rooms[b]) => inbox'[s] = inbox[s]]_vars

C15_Witness ==
  /\ Len(published) = 2
  /\ published[1].busId = published[2].busId
  /\ \E s \in Sockets, t \in Sockets :
       /\ s \in connected /\ s \notin rooms[published[1].busId]
       /\ InboxHas(s, 1) /\ ~InboxHas(s, 2)
       /\ t \notin connected
       /\ InboxHas(t, 1) /\ ~InboxHas(t, 2)

(* C16: joining a room delivers nothing; a socket is sent an event only in *)
(* the step that publishes it, and only if it is a member of the event's   *)
(* room in that step.                                                      *)
C16_NoReplayOnJoin ==
  [][\A s \in Sockets :
       /\ \A b \in BusIds : JoinBusTracking(s, b) => inbox'[s] = inbox[s]
       /\ inbox'[s] # inbox[s] =>
            \E b \in BusIds :
              /\ Publishes(b)
              /\ s \in rooms[b]
              /\ inbox'[s] = Append(inbox[s], Len(published'))]_vars

C16_Witness ==
  /\ Len(published) = 2
  /\ published[1].busId = published[2].busId
  /\ \E s \in Sockets :
       /\ s \in rooms[published[1].busId]
       /\ inbox[s] = <<2>>

(* C17: joining a room the socket is already in, or joining twice, gives   *)
(* the membership one join gives; leaving a room the socket is not in      *)
(* changes no room.                                                        *)
C17_JoinLeaveIdempotent ==
  \A s \in connected, b \in BusIds :
    /\ SocketJoin(SocketJoin(rooms, s, b), s, b) = SocketJoin(rooms, s, b)
    /\ s \in rooms[b] => SocketJoin(rooms, s, b) = rooms
    /\ s \notin rooms[b] => SocketLeave(rooms, s, b) = rooms

C17_Witness ==
  \E s \in connected, t \in connected, b \in BusIds, c \in BusIds :
    /\ s # t /\ b # c
    /\ s \in rooms[b] /\ s \in rooms[c]
    /\ t \notin rooms[b] /\ t \in rooms[c]

(* C18: a socket without admin rights that sends 'update-bus-location'     *)
(* causes no socket to be sent a location.                                 *)
C18_OnlyAdminsPublish ==
  [][\A s \in Sockets \ AdminSockets, b \in BusIds, loc \in Coords :
       UpdateBusLocation(s, b, loc) => inbox' = inbox]_vars

(* C19: a notification created with target users is sent to the connected *)
(* sockets of each target user and to no other socket; one created with no *)
(* target users is sent to every connected socket.                         *)
C19_NotificationTargets ==
  [][\A n \in 1..MaxNotifications :
       ( /\ Len(notifications) = n - 1
         /\ Len(notifications') = n
         /\ notifications'[n].saved )
       => \A s \in Sockets :
            (n \in delivered'[s])
              <=> ( /\ s \in connected
                    /\ \/ notifications'[n].targetUsers = {}
                       \/ SocketUser[s] \in notifications'[n].targetUsers )]_vars

(* The text the specification gives for a minute count. *)
SpecEtaText(m) ==
  IF m < 1 THEN "Arriving now"
  ELSE IF m = 1 THEN "1 min"
  ELSE IF m < 60 THEN ToString(m) \o " mins"
  ELSE ToString(m \div 60) \o "h " \o ToString(m % 60) \o "m"

(* C20: both ETA functions return eta = m, the distance / speed * 60       *)
(* rounded to the nearest whole minute, and the text 'Arriving now' for    *)
(* m < 1, '1 min' for m = 1, '<m> mins' for 1 < m < 60 and                 *)
(* '<floor(m/60)>h <m mod 60>m' for m >= 60.                               *)
C20_EtaText ==
  etaResult # NoEta =>
    LET m == etaResult.eta
        d == LocationUtilsCalculateDistance(etaResult.from, etaResult.to)
    IN /\ m >= 0
       /\ 2 * m * etaResult.speed - etaResult.speed <= 2 * d * MinutesPerHour
       /\ 2 * d * MinutesPerHour < 2 * m * etaResult.speed + etaResult.speed
       /\ etaResult.etaText = SpecEtaText(m)

C20_Witness ==
  /\ etaResult # NoEta
  /\ etaResult.fn = "calculateStopETA"
  /\ etaResult.eta > 60
  /\ etaResult.eta % 60 = 1
  /\ etaResult.etaText = "1h 1m"

(* C23: a location request answered with an error status (400, 404, 500)  *)
(* has left the stored bus documents as they were.                         *)
C23_ErrorLeavesBusUnchanged ==
  [][\A h \in Handlers :
       ( /\ req[h].pc # "done"
         /\ req'[h].pc = "done"
         /\ req'[h].status \in {400, 404, 500} )
       => db' = db]_vars

(* C24: a location update that read the bus before a reset and writes     *)
(* after it does not undo the reset: distanceToday is at most the update's *)
(* own increment and tripStartTime is not earlier than the reset time.     *)
(* (A reset in between shows as a trip start time that differs from the    *)
(* one read while no other update has been written.)                       *)
C24_ResetNotUndone ==
  [][\A h \in Handlers :
       ( /\ Commits(h)
         /\ Len(samples[req[h].busId]) = req[h].seen
         /\ db[req[h].busId].tripStats.tripStartTime
              # req[h].currentBus.tripStats.tripStartTime )
       => LET b == req[h].busId
          IN /\ db'[b].tripStats.distanceToday
                  <= DistanceIncrement(req[h].currentBus, req[h].latitude, req[h].longitude)
             /\ db'[b].tripStats.tripStartTime >= db[b].tripStats.tripStartTime]_vars

(* C26: whenever a bus's tripStats.lastLocation is set, it equals the      *)
(* bus's currentLocation.                                                  *)
C26_LastLocationIsCurrent ==
  \A b \in BusIds :
    (db[b] # Null /\ db[b].tripStats.lastLocation # NoLocation)
    => db[b].tripStats.lastLocation = db[b].currentLocation

(* The distance from the looked-up location to the i-th stop of the call. *)
StopDistance(i) ==
  LocationUtilsCalculateDistance(stopResult.location, stopResult.stops.items[i].location)

(* The indices of the stops of the call that lie within its radius. *)
WithinRadius ==
  LET radius == IF stopResult.radius = Undefined THEN 500 ELSE stopResult.radius
  IN {i \in 1..Len(stopResult.stops.items) : StopDistance(i) <= radius}

C22_NearestFirstOnTies ==
  stopResult.fn = "findNearestStop" =>
    LET items == stopResult.stops.items
    IN IF Len(items) = 0
       THEN stopResult.result = NoStop
       ELSE \E k \in 1..Len(items) :
              /\ \A i \in 1..Len(items) : StopDistance(k) <= StopDistance(i)
              /\ \A i \in 1..(k - 1) : StopDistance(k) < StopDistance(i)
              /\ stopResult.result # NoStop
              /\ stopResult.result._id = items[k]._id
              /\ stopResult.result.location = items[k].location

C22_Witness ==
  /\ stopResult.fn = "findNearestStop"
  /\ Len(stopResult.stops.items) = 3
  /\ StopDistance(1) > StopDistance(2)
  /\ StopDistance(2) = StopDistance(3)
  /\ stopResult.result # NoStop
  /\ stopResult.result._id = stopResult.stops.items[2]._id

(* C28: a stop returned by checkBusApproachingStop is the nearest to the   *)
(* bus among the stops within the radius.                                  *)
C28_ApproachingIsNearest ==
  (stopResult.fn = "checkBusApproachingStop" /\ stopResult.result # NoStop) =>
    \A i \in WithinRadius : stopResult.result.distance <= StopDistance(i)

(* C25: when the page's listener handles an update for a bus that is in    *)
(* the tracked set of that moment and the update puts the bus within       *)
(* 0.5 km of a loaded stop, an arrival notification is raised.             *)
C25_NotifiesWithCurrentState ==
  [][\A b \in BusIds, lat \in ProximityLats :
       ( /\ HandleBusLocationUpdate(b, Coord(lat))
         /\ b \in trackedBuses
         /\ \E k \in 1..Len(stops) : Within(Coord(lat), stops[k]) )
       => raised' # {}]_vars

(* C27: once tracking has been stopped, by the Stop button or by the       *)
(* unmount, no geolocation watch and no backup interval is left running    *)
(* and no further PATCH request is issued.                                 *)
C27_StopCancelsEverything ==
  [][driver'.stopped =>
       /\ driver'.watches = {}
       /\ ~driver'.interval
       /\ driver.stopped => driver'.patches = driver.patches]_vars

(* The delay the claim states for a retry-after header of whole seconds. *)
StatedDelay(header) ==
  LET seconds == IF header = << >> THEN 1 ELSE ParseInt(header).value
  IN IF seconds * 1000 < 10000 THEN seconds * 1000 ELSE 10000

IsIndex(param) == Len(param) > 0 /\ \A i \in 1..Len(param) : IsDigit(param[i])

(* C30: the waypoint DELETE removes exactly the waypoint at the index when *)
(* 0 <= index < number of waypoints and answers 400, leaving the waypoints *)
(* unchanged, for every other index value: negative, too large or not a    *)
(* number.                                                                 *)
C30_RemoveExactlyOrReject ==
  [][\A param \in IndexParams :
       RemoveWaypoint(param, TRUE) =>
         IF IsIndex(param) /\ ParseInt(param).value < Len(route.waypoints)
         THEN LET k == ParseInt(param).value + 1
              IN /\ routeResponse'.status = 200
                 /\ route'.waypoints = SubSeq(route.waypoints, 1, k - 1)
                      \o SubSeq(route.waypoints, k + 1, Len(route.waypoints))
         ELSE /\ routeResponse'.status = 400
              /\ route'.waypoints = route.waypoints]_vars

====
